---- MODULE Spec2Model ----
(***************************************************************************)
(* A model of the utility helpers of the repository:                       *)
(*   src/exceptions/exception.py    CustomException                        *)
(*   src/logging_core/logger.py     LoggerFactory.get_logger               *)
(*   src/utils/main_utils.py        read_yaml .. create_directories        *)
(*                                                                         *)
(* Python values are tagged records ([t |-> "int", v |-> 10], ...), paths  *)
(* are sequences of path components (<<"d", "f">> is d/f), the file system *)
(* is a function from the paths that exist to their nodes.                 *)
(***************************************************************************)
EXTENDS Integers, Sequences, FiniteSets, TLC

VARIABLES
    fs,          \* the file system: path -> [kind |-> "dir"] or [kind |-> "file", content |-> c]
    loggers,     \* logging's manager: logger name -> [level, handlers, propagate]
    configured,  \* LoggerFactory._configured_loggers: name -> the logger cached
    environ,     \* os.environ's LOG_LEVEL (PyNone when unset)
    ret,         \* the last call: its operation, arguments and outcome
    events,      \* what the last call did, in order: steps, log entries, return or raise
    pre,         \* the file system as the last call found it
    first,       \* logger name -> the handlers its creating get_logger call attached
    lastWrite,   \* path -> the last write to its file: [op, data, ok]
    arg          \* the mapping the caller of write_yaml holds

vars == <<fs, loggers, configured, environ, ret, events, pre, first, lastWrite, arg>>

(***************************************************************************)
(* Bounds of the model.                                                    *)
(***************************************************************************)
MaxFrames == 2   \* frames of a causing error's traceback
MaxPaths == 2    \* length of a list given to create_directories
MaxItems == 1    \* items of a list or tuple inside a mapping given to write_yaml

(***************************************************************************)
(* Python values.                                                          *)
(***************************************************************************)
PyNone == [t |-> "none"]
PyInt(n) == [t |-> "int", v |-> n]
PyStr(s) == [t |-> "str", v |-> s]
PyBool(b) == [t |-> "bool", v |-> b]

Last(s) == s[Len(s)]

\* The sequences over S of length at most n.
RECURSIVE SeqsUpTo(_, _)
SeqsUpTo(S, n) ==
    IF n = 0 THEN {<<>>}
    ELSE LET shorter == SeqsUpTo(S, n - 1)
         IN  shorter \cup {Append(s, x) : s \in {q \in shorter : Len(q) = n - 1}, x \in S}

(***************************************************************************)
(* Errors.  A native error carries its type, its attached trace (a         *)
(* sequence of frames, outermost first; empty when it has no trace, as an  *)
(* error that was constructed and never raised) and its truth value (an    *)
(* exception class may define __bool__ or __len__).                        *)
(***************************************************************************)
Unknown == PyStr("Unknown")

Frame(file, line) == [file |-> file, line |-> line]

NativeError(type, tb, falsy) == [t |-> "error", type |-> type, tb |-> tb, falsy |-> falsy]

\* `if original_exception:` (exception.py line 23)
Truthy(x) == x.t # "none" /\ ~x.falsy

\* `while tb.tb_next: tb = tb.tb_next` (lines 28-29): the deepest frame of a
\* trace; on no trace at all (tb is None) the attribute access fails.
WalkToLast(tb) ==
    IF tb = <<>>
    THEN [raised |-> TRUE, type |-> "AttributeError"]
    ELSE [raised |-> FALSE, frame |-> Last(tb)]

\* traceback.format_exception(type(e), e, e.__traceback__) joined (lines 37-43):
\* the header and one entry per frame when there is a trace, then the error line.
FormatException(e) ==
    [t |-> "text", header |-> (e.tb # <<>>), frames |-> e.tb, error |-> e.type]

\* A mutant of the origin capture: the walk without the `if tb:` guard of line 26.
OriginUnguarded(tb) ==
    LET w == WalkToLast(tb)
    IN  IF w.raised
        THEN w
        ELSE [raised |-> FALSE, file_name |-> PyStr(w.frame.file),
              line_number |-> PyInt(w.frame.line)]

\* lines 24-35: file and line of the deepest frame, or the sentinel.
Origin(tb) ==
    IF tb # <<>>
    THEN LET w == WalkToLast(tb)
         IN  IF w.raised
             THEN w
             ELSE [raised |-> FALSE, file_name |-> PyStr(w.frame.file),
                   line_number |-> PyInt(w.frame.line)]
    ELSE [raised |-> FALSE, file_name |-> Unknown, line_number |-> Unknown]

\* CustomException.__init__ (lines 17-47).  The result is the exception
\* object, or [t |-> "raised"] when the constructor itself raises.
CustomException(message, original_exception) ==
    IF Truthy(original_exception)
    THEN LET o == Origin(original_exception.tb)
         IN  IF o.raised
             THEN [t |-> "raised", type |-> o.type]
             ELSE [t |-> "CustomException",
                   message |-> message,
                   original_exception |-> original_exception,
                   file_name |-> o.file_name,
                   line_number |-> o.line_number,
                   traceback |-> FormatException(original_exception)]
    ELSE [t |-> "CustomException",
          message |-> message,
          original_exception |-> original_exception,
          file_name |-> Unknown,
          line_number |-> Unknown,
          traceback |-> PyNone]

\* CustomException.__str__ (lines 49-61): the parts of the display form.
ExcStr(e) ==
    [location |-> <<e.file_name, e.line_number>>,
     message |-> e.message,
     original_error |-> IF Truthy(e.original_exception)
                        THEN e.original_exception.type ELSE "",
     traceback |-> IF e.traceback.t # "none" THEN e.traceback ELSE PyNone]

\* CustomException.to_dict (lines 63-72); repr(None) is the text 'None'.
ExcToDict(e) ==
    [message |-> e.message,
     file |-> e.file_name,
     line |-> e.line_number,
     original_error |-> IF e.original_exception.t = "none"
                        THEN "None" ELSE e.original_exception.type]

(***************************************************************************)
(* The idle values of the variables.                                       *)
(***************************************************************************)
NoRet == [op |-> "none"]
EmptyFs == <<>>
NoLoggers == <<>>

InitIdle ==
    /\ fs = EmptyFs
    /\ loggers = NoLoggers
    /\ configured = <<>>
    /\ environ = PyNone
    /\ ret = NoRet
    /\ events = <<>>
    /\ pre = EmptyFs
    /\ first = <<>>
    /\ lastWrite = <<>>
    /\ arg = PyNone

(***************************************************************************)
(* The specification of the exception wrapper: construct, display,         *)
(* serialise.                                                              *)
(***************************************************************************)
Messages == {"m1", "m2"}
ErrorTypes == {"ValueError", "KeyError"}
Frames == {Frame(f, l) : f \in {"a.py", "b.py"}, l \in {1, 2}}

Causes ==
    {PyNone} \cup
    {NativeError(ty, tb, fl) : ty \in ErrorTypes, tb \in SeqsUpTo(Frames, MaxFrames),
                               fl \in BOOLEAN}

Construct(message, cause) ==
    /\ ret' = [op |-> "CustomException", message |-> message, cause |-> cause,
               value |-> CustomException(message, cause)]
    /\ UNCHANGED <<fs, loggers, configured, environ, events, pre, first, lastWrite, arg>>

Display ==
    /\ ret.op = "CustomException"
    /\ ret.value.t = "CustomException"
    /\ ret' = [op |-> "__str__", of |-> ret.value, value |-> ExcStr(ret.value)]
    /\ UNCHANGED <<fs, loggers, configured, environ, events, pre, first, lastWrite, arg>>

ToDict ==
    /\ ret.op = "CustomException"
    /\ ret.value.t = "CustomException"
    /\ ret' = [op |-> "to_dict", of |-> ret.value, value |-> ExcToDict(ret.value)]
    /\ UNCHANGED <<fs, loggers, configured, environ, events, pre, first, lastWrite, arg>>

NextExc ==
    \/ \E m \in Messages, c \in Causes : Construct(m, c)
    \/ Display
    \/ ToDict

SpecExc == InitIdle /\ [][NextExc]_vars

\* C4: a CustomException constructed without a causing error has file_name
\* and line_number "Unknown" and no traceback; and no construction raises,
\* whether the cause is absent, carries a trace or carries none.
C4_UnknownWithoutCause ==
    ret.op = "CustomException" =>
        /\ ret.value.t = "CustomException"
        /\ ret.cause = PyNone =>
              /\ ret.value.file_name = Unknown
              /\ ret.value.line_number = Unknown
              /\ ret.value.traceback = PyNone

\* C4's case: a construction without a causing error.
C4_Witness ==
    /\ ret.op = "CustomException"
    /\ ret.cause = PyNone
    /\ ret.value.t = "CustomException"

(***************************************************************************)
(* The file system.  A path is a sequence of components; <<>> is the       *)
(* working directory, which always exists.  A path that exists has a       *)
(* parent that is a directory.                                             *)
(***************************************************************************)
FsErrors == {"FileExistsError", "FileNotFoundError", "NotADirectoryError", "IsADirectoryError"}

Dir == [kind |-> "dir"]
File(content) == [kind |-> "file", content |-> content]
Empty == [fmt |-> "empty"]       \* a file of zero bytes

Parent(p) == SubSeq(p, 1, Len(p) - 1)

Exists(f, p) == p = <<>> \/ p \in DOMAIN f
IsDir(f, p) == p = <<>> \/ (p \in DOMAIN f /\ f[p].kind = "dir")
IsFile(f, p) == p \in DOMAIN f /\ f[p].kind = "file"

Put(f, p, node) == [q \in DOMAIN f \cup {p} |-> IF q = p THEN node ELSE f[q]]

\* The error of resolving the directory that should hold p: none when it is a
\* directory, ENOTDIR when the walk meets a file, ENOENT when it meets nothing.
RECURSIVE ParentError(_, _)
ParentError(f, p) ==
    IF p = <<>> \/ IsDir(f, Parent(p)) THEN "none"
    ELSE IF IsFile(f, Parent(p)) THEN "NotADirectoryError"
    ELSE LET up == ParentError(f, Parent(p))
         IN  IF up = "none" THEN "FileNotFoundError" ELSE up

\* os.mkdir(p)
OsMkdir(f, p) ==
    IF Exists(f, p) THEN [fs |-> f, err |-> "FileExistsError"]
    ELSE IF ParentError(f, p) # "none" THEN [fs |-> f, err |-> ParentError(f, p)]
    ELSE [fs |-> Put(f, p, Dir), err |-> "none"]

\* A mutant of Mkdir: exist_ok is ignored, an existing directory is an error.
RECURSIVE MkdirStrict(_, _, _, _)
MkdirStrict(f, p, parents, exist_ok) ==
    LET r == OsMkdir(f, p)
    IN  IF r.err = "none" THEN r
        ELSE IF r.err = "FileNotFoundError"
        THEN IF ~parents \/ p = <<>> THEN r
             ELSE LET up == MkdirStrict(f, Parent(p), TRUE, TRUE)
                  IN  IF up.err # "none" THEN up
                      ELSE MkdirStrict(up.fs, p, FALSE, exist_ok)
        ELSE r

\* pathlib.Path.mkdir(parents, exist_ok), and os.makedirs(p, exist_ok), which
\* ends the same way: the missing ancestors are made first, and an existing
\* target is an error unless exist_ok is set and the target is a directory.
RECURSIVE Mkdir(_, _, _, _)
Mkdir(f, p, parents, exist_ok) ==
    LET r == OsMkdir(f, p)
    IN  IF r.err = "none" THEN r
        ELSE IF r.err = "FileNotFoundError"
        THEN IF ~parents \/ p = <<>> THEN r
             ELSE LET up == Mkdir(f, Parent(p), TRUE, TRUE)
                  IN  IF up.err # "none" THEN up
                      ELSE Mkdir(up.fs, p, FALSE, exist_ok)
        ELSE IF exist_ok /\ IsDir(f, p) THEN [fs |-> f, err |-> "none"]
        ELSE r

\* open(p, "w") / open(p, "wb"): the file is created or truncated.
OpenWrite(f, p) ==
    IF IsDir(f, p) THEN [fs |-> f, err |-> "IsADirectoryError"]
    ELSE IF ParentError(f, p) # "none" THEN [fs |-> f, err |-> ParentError(f, p)]
    ELSE [fs |-> Put(f, p, File(Empty)), err |-> "none"]

\* open(p, "a"): the file is created when missing and kept otherwise.
OpenAppend(f, p) ==
    IF IsDir(f, p) THEN [fs |-> f, err |-> "IsADirectoryError"]
    ELSE IF ParentError(f, p) # "none" THEN [fs |-> f, err |-> ParentError(f, p)]
    ELSE IF IsFile(f, p) THEN [fs |-> f, err |-> "none"]
    ELSE [fs |-> Put(f, p, File(Empty)), err |-> "none"]

\* open(p, "r") / open(p, "rb")
OpenRead(f, p) ==
    IF IsDir(f, p) THEN [err |-> "IsADirectoryError"]
    ELSE IF IsFile(f, p) THEN [err |-> "none", content |-> f[p].content]
    ELSE [err |-> IF ParentError(f, p) = "NotADirectoryError"
                  THEN "NotADirectoryError" ELSE "FileNotFoundError"]

(***************************************************************************)
(* YAML, as yaml.safe_dump writes it and yaml.safe_load reads it.  A       *)
(* Python value is a scalar, a list or tuple ([t, v |-> items]) or a dict  *)
(* ([t |-> "dict", v |-> the <<key, value>> pairs in insertion order]).    *)
(* A document is a tree of nodes; a scalar node is its text and whether    *)
(* the text is quoted.                                                     *)
(***************************************************************************)
PyList(items) == [t |-> "list", v |-> items]
PyTuple(items) == [t |-> "tuple", v |-> items]
PyDict(pairs) == [t |-> "dict", v |-> pairs]
PyObject == [t |-> "object"]     \* an instance of a class safe_dump has no representer for

Digits == <<"0", "1", "2", "3", "4", "5", "6", "7", "8", "9">>
IntText(n) == Digits[n + 1]
TextInt(s) == CHOOSE n \in 0..9 : Digits[n + 1] = s

\* The implicit resolver: the type a plain (unquoted) scalar is read as.
PlainResolve(text) ==
    IF \E n \in 0..9 : Digits[n + 1] = text THEN "int"
    ELSE IF text \in {"null", "Null", "NULL", "~", ""} THEN "null"
    ELSE IF text \in {"true", "True", "false", "False", "yes", "no", "on", "off"} THEN "bool"
    ELSE "str"

Scalar(style, text) == [n |-> "scalar", style |-> style, text |-> text]

\* Whether safe_dump can represent the value.
RECURSIVE Representable(_)
Representable(v) ==
    CASE v.t \in {"none", "bool", "int", "str"} -> TRUE
      [] v.t \in {"list", "tuple"} -> \A i \in DOMAIN v.v : Representable(v.v[i])
      [] v.t = "dict" -> \A i \in DOMAIN v.v : Representable(v.v[i][1]) /\ Representable(v.v[i][2])
      [] OTHER -> FALSE

\* A mutant of the emitter: every string is written plain, also one that
\* reads back as a number, a boolean or null.
RECURSIVE RepresentUnquoted(_)
RepresentUnquoted(v) ==
    CASE v.t = "none" -> Scalar("plain", "null")
      [] v.t = "bool" -> Scalar("plain", IF v.v THEN "true" ELSE "false")
      [] v.t = "int" -> Scalar("plain", IntText(v.v))
      [] v.t = "str" -> Scalar("plain", v.v)
      [] v.t \in {"list", "tuple"} ->
            [n |-> "seq", items |-> [i \in DOMAIN v.v |-> RepresentUnquoted(v.v[i])]]
      [] v.t = "dict" ->
            [n |-> "map",
             pairs |-> [i \in DOMAIN v.v |-> <<RepresentUnquoted(v.v[i][1]), RepresentUnquoted(v.v[i][2])>>]]

\* The document safe_dump writes for a representable value (sort_keys=False:
\* the pairs of a dict in its own order).  SafeRepresenter writes a tuple as
\* it writes a list, and quotes a string that would not read back as one.
RECURSIVE Represent(_)
Represent(v) ==
    CASE v.t = "none" -> Scalar("plain", "null")
      [] v.t = "bool" -> Scalar("plain", IF v.v THEN "true" ELSE "false")
      [] v.t = "int" -> Scalar("plain", IntText(v.v))
      [] v.t = "str" ->
            Scalar(IF PlainResolve(v.v) = "str" THEN "plain" ELSE "quoted", v.v)
      [] v.t \in {"list", "tuple"} ->
            [n |-> "seq", items |-> [i \in DOMAIN v.v |-> Represent(v.v[i])]]
      [] v.t = "dict" ->
            [n |-> "map",
             pairs |-> [i \in DOMAIN v.v |-> <<Represent(v.v[i][1]), Represent(v.v[i][2])>>]]

\* The value safe_load constructs from a document.
RECURSIVE ConstructNode(_)
ConstructNode(node) ==
    CASE node.n = "scalar" ->
            IF node.style = "quoted" THEN PyStr(node.text)
            ELSE LET ty == PlainResolve(node.text)
                 IN  CASE ty = "int" -> PyInt(TextInt(node.text))
                       [] ty = "null" -> PyNone
                       [] ty = "bool" -> PyBool(node.text \in {"true", "True", "yes", "on"})
                       [] OTHER -> PyStr(node.text)
      [] node.n = "seq" ->
            PyList([i \in DOMAIN node.items |-> ConstructNode(node.items[i])])
      [] node.n = "map" ->
            PyDict([i \in DOMAIN node.pairs |->
                       <<ConstructNode(node.pairs[i][1]), ConstructNode(node.pairs[i][2])>>])

\* Python's ==: dicts are equal when they hold the same keys with equal
\* values, in any order; a list equals no tuple.
RECURSIVE PyEq(_, _)
PyEq(a, b) ==
    IF a.t # b.t THEN FALSE
    ELSE CASE a.t \in {"list", "tuple"} ->
                 /\ Len(a.v) = Len(b.v)
                 /\ \A i \in DOMAIN a.v : PyEq(a.v[i], b.v[i])
           [] a.t = "dict" ->
                 /\ Len(a.v) = Len(b.v)
                 /\ \A i \in DOMAIN a.v : \E j \in DOMAIN b.v :
                       /\ PyEq(a.v[i][1], b.v[j][1])
                       /\ PyEq(a.v[i][2], b.v[j][2])
           [] OTHER -> a = b

(***************************************************************************)
(* What a file holds, and what the serialisers make of it.                 *)
(***************************************************************************)
Garbage == [fmt |-> "garbage"]   \* the bytes a failed dump left behind
YamlDoc(doc) == [fmt |-> "yaml", doc |-> doc]
Pickled(by, obj) == [fmt |-> "pickle", by |-> by, obj |-> obj]
Npy(array) == [fmt |-> "npy", array |-> array]

\* Objects given to save_object: one pickle can serialise, one only dill
\* can (a lambda), one neither can (a generator).
Obj(id) == [t |-> "obj", id |-> id]
Objects == {Obj("plain"), Obj("lambda"), Obj("generator")}
Picklable(o) == o.id = "plain"
Dillable(o) == o.id \in {"plain", "lambda"}

Ndarray(id) == [t |-> "ndarray", id |-> id]
IsNdarray(a) == a.t = "ndarray"

\* yaml.safe_load on an open file: an empty document loads as None, bytes
\* that are no text do not load.
SafeLoad(content) ==
    CASE content.fmt = "empty" -> [err |-> "none", value |-> PyNone]
      [] content.fmt = "yaml" -> [err |-> "none", value |-> ConstructNode(content.doc)]
      [] OTHER -> [err |-> "UnicodeDecodeError"]

\* yaml.safe_dump(data, f, sort_keys=False, ...): nothing is written when the
\* data cannot be represented.
SafeDump(data) ==
    IF Representable(data)
    THEN [err |-> "none", content |-> YamlDoc(Represent(data))]
    ELSE [err |-> "RepresenterError"]

\* pickle.load: reads what pickle wrote.
PickleLoad(content) ==
    CASE content.fmt = "pickle" /\ content.by = "pickle" -> [err |-> "none", value |-> content.obj]
      [] content.fmt = "empty" -> [err |-> "EOFError"]
      [] OTHER -> [err |-> "UnpicklingError"]

\* dill.load: reads what pickle or dill wrote.
DillLoad(content) ==
    CASE content.fmt = "pickle" -> [err |-> "none", value |-> content.obj]
      [] content.fmt = "empty" -> [err |-> "EOFError"]
      [] OTHER -> [err |-> "UnpicklingError"]

\* np.load (allow_pickle=False): reads an array file.
NpLoad(content) ==
    CASE content.fmt = "npy" -> [err |-> "none", value |-> content.array]
      [] content.fmt = "empty" -> [err |-> "EOFError"]
      [] OTHER -> [err |-> "ValueError"]

\* np.save appends ".npy" to a file name that does not end with it.
NpyName(c) ==
    CASE c = "f" -> "f.npy"
      [] c = "g" -> "g.npy"
      [] OTHER -> c

NpTarget(p) == IF p = <<>> THEN p ELSE [p EXCEPT ![Len(p)] = NpyName(p[Len(p)])]

(***************************************************************************)
(* The file helpers (src/utils/main_utils.py).  The body of each helper's  *)
(* try block is an operator from the file system and the arguments to      *)
(* [fs, events, err, value]: the file system it leaves, what it did in     *)
(* order, the native error that ended it (PyNone when it ran through) and  *)
(* the value it returns.                                                   *)
(***************************************************************************)
Step(what, err) == [e |-> "step", what |-> what, err |-> err]
Log(level, msg) == [e |-> "log", level |-> level, msg |-> msg]

\* A native error raised at a line of main_utils.py, below it the frame of
\* the library function that raised it (none for a builtin).
Err(type, line, lib) ==
    NativeError(type,
                <<Frame("main_utils.py", line)>>
                    \o (IF lib = "" THEN <<>> ELSE <<Frame(lib, 0)>>),
                FALSE)

Ran(f, ev, value) == [fs |-> f, events |-> ev, err |-> PyNone, value |-> value]
Failed(f, ev, error) == [fs |-> f, events |-> ev, err |-> error, value |-> PyNone]

\* The message of the CustomException and of the error log entry, per helper.
OpMessage(op) ==
    CASE op = "read_yaml" -> "Error while reading YAML file"
      [] op = "write_yaml" -> "Error while writing YAML file"
      [] op = "load_object" -> "Error while loading object"
      [] op = "save_object" -> "Error while saving object"
      [] op = "save_numpy_array_data" -> "Error while saving numpy array"
      [] op = "load_numpy_array_data" -> "Error while loading numpy array"
      [] op = "create_directories" -> "Error while creating directories"

FailureLog(op) ==
    CASE op = "read_yaml" -> "Failed to read YAML file"
      [] op = "write_yaml" -> "Failed to write YAML file"
      [] op = "load_object" -> "Failed to load object"
      [] op = "save_object" -> "Failed to save object"
      [] op = "save_numpy_array_data" -> "Failed to save numpy array"
      [] op = "load_numpy_array_data" -> "Failed to load numpy array"
      [] op = "create_directories" -> "Failed to create directories"

\* path.parent.mkdir(parents=True, exist_ok=True) when create_dir is set
\* (lines 57-58, 116-117, 156-157): the events so far and the error.
MakeParent(f, file_path, create_dir, line) ==
    IF ~create_dir THEN Ran(f, <<>>, PyNone)
    ELSE LET mk == Mkdir(f, Parent(file_path), TRUE, TRUE)
         IN  IF mk.err = "none"
             THEN Ran(mk.fs, <<Step("parent.mkdir", "none")>>, PyNone)
             ELSE Failed(mk.fs, <<Step("parent.mkdir", mk.err)>>, Err(mk.err, line, "pathlib"))

\* A mutant of read_yaml: the check for an empty document (lines 25-26) is
\* missing and None is returned.
ReadYamlBodyUnchecked(f, file_path) ==
    IF ~Exists(f, file_path)
    THEN Failed(f, <<Step("path.exists", "FileNotFoundError")>>,
                Err("FileNotFoundError", 20, ""))
    ELSE LET o == OpenRead(f, file_path)
             e1 == <<Step("path.exists", "none")>>
         IN  IF o.err # "none"
             THEN Failed(f, e1 \o <<Step("open", o.err)>>, Err(o.err, 22, ""))
             ELSE LET l == SafeLoad(o.content)
                      e2 == e1 \o <<Step("open", "none")>>
                  IN  IF l.err # "none"
                      THEN Failed(f, e2 \o <<Step("yaml.safe_load", l.err)>>,
                                  Err(l.err, 23, "yaml"))
                      ELSE Ran(f, e2 \o <<Step("yaml.safe_load", "none"),
                                          Log("INFO", "YAML file loaded successfully")>>,
                               l.value)

\* read_yaml, lines 16-30
ReadYamlBody(f, file_path) ==
    IF ~Exists(f, file_path)
    THEN Failed(f, <<Step("path.exists", "FileNotFoundError")>>,
                Err("FileNotFoundError", 20, ""))
    ELSE LET o == OpenRead(f, file_path)
             e1 == <<Step("path.exists", "none")>>
         IN  IF o.err # "none"
             THEN Failed(f, e1 \o <<Step("open", o.err)>>, Err(o.err, 22, ""))
             ELSE LET l == SafeLoad(o.content)
                      e2 == e1 \o <<Step("open", "none")>>
                  IN  IF l.err # "none"
                      THEN Failed(f, e2 \o <<Step("yaml.safe_load", l.err)>>,
                                  Err(l.err, 23, "yaml"))
                      ELSE IF l.value = PyNone
                      THEN Failed(f, e2 \o <<Step("yaml.safe_load", "none"),
                                             Step("content", "ValueError")>>,
                                  Err("ValueError", 26, ""))
                      ELSE Ran(f, e2 \o <<Step("yaml.safe_load", "none"),
                                          Step("content", "none"),
                                          Log("INFO", "YAML file loaded successfully")>>,
                               l.value)

\* write_yaml, lines 53-69
WriteYamlBody(f, file_path, data, create_dir) ==
    LET mp == MakeParent(f, file_path, create_dir, 58)
    IN  IF mp.err # PyNone THEN mp
        ELSE LET o == OpenWrite(mp.fs, file_path)
             IN  IF o.err # "none"
                 THEN Failed(o.fs, mp.events \o <<Step("open", o.err)>>, Err(o.err, 60, ""))
                 ELSE LET d == SafeDump(data)
                          e2 == mp.events \o <<Step("open", "none")>>
                      IN  IF d.err # "none"
                          THEN Failed(o.fs, e2 \o <<Step("yaml.safe_dump", d.err)>>,
                                      Err(d.err, 61, "yaml"))
                          ELSE Ran(Put(o.fs, file_path, File(d.content)),
                                   e2 \o <<Step("yaml.safe_dump", "none"),
                                           Log("INFO", "YAML file written successfully")>>,
                                   PyNone)

\* A mutant of load_object: dill is tried first and pickle is the fallback.
LoadObjectDillFirst(f, file_path) ==
    IF ~Exists(f, file_path)
    THEN Failed(f, <<Step("path.exists", "FileNotFoundError")>>,
                Err("FileNotFoundError", 83, ""))
    ELSE LET o == OpenRead(f, file_path)
             e1 == <<Step("path.exists", "none")>>
             pk == IF o.err # "none" THEN [err |-> o.err] ELSE PickleLoad(o.content)
             dl == IF o.err # "none" THEN [err |-> o.err] ELSE DillLoad(o.content)
         IN  IF dl.err = "none"
             THEN Ran(f, e1 \o <<Step("dill.load", "none"),
                                 Log("INFO", "Object loaded using dill")>>,
                      dl.value)
             ELSE LET e2 == e1 \o <<Step("dill.load", dl.err),
                                    Log("WARNING", "Dill load failed, trying pickle")>>
                  IN  IF pk.err = "none"
                      THEN Ran(f, e2 \o <<Step("pickle.load", "none"),
                                          Log("INFO", "Object loaded using pickle")>>,
                               pk.value)
                      ELSE Failed(f, e2 \o <<Step("pickle.load", pk.err)>>,
                                  Err(pk.err, 98, ""))

\* load_object, lines 79-101: pickle first, dill when pickle has failed.  An
\* attempt is the open and the load together (lines 87-88, lines 97-98).
LoadObjectBody(f, file_path) ==
    IF ~Exists(f, file_path)
    THEN Failed(f, <<Step("path.exists", "FileNotFoundError")>>,
                Err("FileNotFoundError", 83, ""))
    ELSE LET o == OpenRead(f, file_path)
             e1 == <<Step("path.exists", "none")>>
             pk == IF o.err # "none" THEN [err |-> o.err] ELSE PickleLoad(o.content)
             dl == IF o.err # "none" THEN [err |-> o.err] ELSE DillLoad(o.content)
         IN  IF pk.err = "none"
             THEN Ran(f, e1 \o <<Step("pickle.load", "none"),
                                 Log("INFO", "Object loaded using pickle")>>,
                      pk.value)
             ELSE LET e2 == e1 \o <<Step("pickle.load", pk.err),
                                    Log("WARNING", "Pickle load failed"),
                                    Log("WARNING", "Pickle load failed, trying dill")>>
                  IN  IF dl.err = "none"
                      THEN Ran(f, e2 \o <<Step("dill.load", "none"),
                                          Log("INFO", "Object loaded using dill")>>,
                               dl.value)
                      ELSE Failed(f, e2 \o <<Step("dill.load", dl.err)>>,
                                  Err(dl.err, IF o.err # "none" THEN 97 ELSE 98,
                                      IF o.err # "none" THEN "" ELSE "dill"))

\* save_object, lines 113-131: pickle first, dill when pickle has failed.  An
\* attempt is the open and the dump together; a dump that fails leaves
\* `partial` in the file it had opened.
SaveObjectBody(f, file_path, obj, create_dir, partial) ==
    LET mp == MakeParent(f, file_path, create_dir, 117)
    IN  IF mp.err # PyNone THEN mp
        ELSE LET o == OpenWrite(mp.fs, file_path)
             IN  IF o.err # "none"
                 THEN Failed(o.fs,
                             mp.events \o <<Step("pickle.dump", o.err),
                                            Log("WARNING", "Pickle failed, falling back to dill"),
                                            Step("dill.dump", o.err)>>,
                             Err(o.err, 128, ""))
                 ELSE IF Picklable(obj)
                 THEN Ran(Put(o.fs, file_path, File(Pickled("pickle", obj))),
                          mp.events \o <<Step("pickle.dump", "none"),
                                         Log("INFO", "Object saved using pickle")>>,
                          PyNone)
                 ELSE LET e2 == mp.events \o
                                   <<Step("pickle.dump", "PicklingError"),
                                     Log("WARNING", "Pickle failed, falling back to dill")>>
                      IN  IF Dillable(obj)
                          THEN Ran(Put(o.fs, file_path, File(Pickled("dill", obj))),
                                   e2 \o <<Step("dill.dump", "none"),
                                           Log("INFO", "Object saved using dill")>>,
                                   PyNone)
                          ELSE Failed(Put(o.fs, file_path, File(partial)),
                                      e2 \o <<Step("dill.dump", "PicklingError")>>,
                                      Err("PicklingError", 129, "dill"))

\* save_numpy_array_data, lines 153-164: the directory first, then the type
\* check, then np.save.
SaveNumpyBody(f, file_path, array, create_dir) ==
    LET mp == MakeParent(f, file_path, create_dir, 157)
    IN  IF mp.err # PyNone THEN mp
        ELSE IF ~IsNdarray(array)
        THEN Failed(mp.fs, mp.events \o <<Step("isinstance", "TypeError")>>,
                    Err("TypeError", 160, ""))
        ELSE LET o == OpenWrite(mp.fs, NpTarget(file_path))
                 e1 == mp.events \o <<Step("isinstance", "none")>>
             IN  IF o.err # "none"
                 THEN Failed(o.fs, e1 \o <<Step("np.save", o.err)>>, Err(o.err, 162, "numpy"))
                 ELSE Ran(Put(o.fs, NpTarget(file_path), File(Npy(array))),
                          e1 \o <<Step("np.save", "none"),
                                  Log("INFO", "Numpy array saved successfully")>>,
                          PyNone)

\* load_numpy_array_data, lines 177-187
LoadNumpyBody(f, file_path) ==
    IF ~Exists(f, file_path)
    THEN Failed(f, <<Step("path.exists", "FileNotFoundError")>>,
                Err("FileNotFoundError", 181, ""))
    ELSE LET o == OpenRead(f, file_path)
             l == IF o.err # "none" THEN [err |-> o.err] ELSE NpLoad(o.content)
             e1 == <<Step("path.exists", "none")>>
         IN  IF l.err # "none"
             THEN Failed(f, e1 \o <<Step("np.load", l.err)>>, Err(l.err, 183, "numpy"))
             ELSE Ran(f, e1 \o <<Step("np.load", "none"),
                                 Log("INFO", "Numpy array loaded successfully")>>,
                      l.value)

\* create_directories, lines 211-218: a single path is a list of one; the
\* paths in order, each made and then logged, up to the first that fails.
RECURSIVE MakeEach(_, _, _, _)
MakeEach(f, ev, paths, exist_ok) ==
    IF paths = <<>> THEN Ran(f, ev, PyNone)
    ELSE LET mk == Mkdir(f, Head(paths), TRUE, exist_ok)
         IN  IF mk.err # "none"
             THEN Failed(mk.fs, ev \o <<Step("mkdir", mk.err)>>, Err(mk.err, 217, "pathlib"))
             ELSE MakeEach(mk.fs,
                           ev \o <<Step("mkdir", "none"),
                                   Log("INFO", "Directory created or already exists")>>,
                           Tail(paths), exist_ok)

CreateDirectoriesBody(f, paths, exist_ok) ==
    MakeEach(f, <<>>, IF paths.t = "str" THEN <<paths.v>> ELSE paths.v, exist_ok)

\* A mutant of the except clause: the exception is raised before the failure
\* is logged.
FinishUnlogged(op, b) ==
    IF b.err = PyNone
    THEN [fs |-> b.fs, events |-> b.events \o <<[e |-> "return"]>>,
          outcome |-> "return", value |-> b.value, exc |-> PyNone]
    ELSE LET exc == CustomException(OpMessage(op), b.err)
         IN  [fs |-> b.fs,
              events |-> b.events \o <<[e |-> "raise", type |-> exc.t]>>,
              outcome |-> "raise", value |-> PyNone, exc |-> exc]

\* A mutant of the except clause: the CustomException does not carry the
\* native error.
FinishCauseless(op, b) ==
    IF b.err = PyNone
    THEN [fs |-> b.fs, events |-> b.events \o <<[e |-> "return"]>>,
          outcome |-> "return", value |-> b.value, exc |-> PyNone]
    ELSE LET exc == CustomException(OpMessage(op), PyNone)
         IN  [fs |-> b.fs,
              events |-> b.events \o <<Log("ERROR", FailureLog(op)),
                                       [e |-> "raise", type |-> exc.t]>>,
              outcome |-> "raise", value |-> PyNone, exc |-> exc]

\* The end of every helper: the value is returned when the body ran through;
\* `except Exception as e` logs the failure and raises CustomException from
\* the native error.
Finish(op, b) ==
    IF b.err = PyNone
    THEN [fs |-> b.fs, events |-> b.events \o <<[e |-> "return"]>>,
          outcome |-> "return", value |-> b.value, exc |-> PyNone]
    ELSE LET exc == CustomException(OpMessage(op), b.err)
         IN  [fs |-> b.fs,
              events |-> b.events \o <<Log("ERROR", FailureLog(op)),
                                       [e |-> "raise", type |-> exc.t]>>,
              outcome |-> "raise", value |-> PyNone, exc |-> exc]

\* Whether the call got as far as opening its file for writing.
Opened(ev) ==
    \E i \in DOMAIN ev :
        /\ ev[i].e = "step"
        /\ \/ ev[i].what \in {"open", "np.save"} /\ ev[i].err = "none"
           \/ ev[i].what = "yaml.safe_dump"
           \/ ev[i].what \in {"pickle.dump", "dill.dump"} /\ ev[i].err \notin FsErrors

\* What a call of a helper leaves in the variables: r is the outcome of the
\* helper, target the file it writes (<<>> for a helper that writes none).
Called(op, args, r, target, data) ==
    /\ fs' = r.fs
    /\ events' = r.events
    /\ pre' = fs
    /\ ret' = [op |-> op, args |-> args, outcome |-> r.outcome, value |-> r.value,
               exc |-> r.exc]
    /\ lastWrite' = IF target # <<>> /\ Opened(r.events)
                    THEN [q \in DOMAIN lastWrite \cup {target} |->
                             IF q = target
                             THEN [op |-> op, data |-> data, ok |-> r.outcome = "return"]
                             ELSE lastWrite[q]]
                    ELSE lastWrite
    /\ UNCHANGED <<loggers, configured, environ, first, arg>>

read_yaml(file_path) ==
    \E r \in {Finish("read_yaml", ReadYamlBody(fs, file_path))} :
        Called("read_yaml", [file_path |-> file_path], r, <<>>, PyNone)

write_yaml(file_path, data, create_dir) ==
    \E r \in {Finish("write_yaml", WriteYamlBody(fs, file_path, data, create_dir))} :
        Called("write_yaml", [file_path |-> file_path, create_dir |-> create_dir],
               r, file_path, data)

load_object(file_path) ==
    \E r \in {Finish("load_object", LoadObjectBody(fs, file_path))} :
        Called("load_object", [file_path |-> file_path], r, <<>>, PyNone)

save_object(file_path, obj, create_dir) ==
    \E partial \in {Empty, Garbage} :
    \E r \in {Finish("save_object", SaveObjectBody(fs, file_path, obj, create_dir, partial))} :
        Called("save_object", [file_path |-> file_path, obj |-> obj, create_dir |-> create_dir],
               r, file_path, obj)

save_numpy_array_data(file_path, array, create_dir) ==
    \E r \in {Finish("save_numpy_array_data",
                     SaveNumpyBody(fs, file_path, array, create_dir))} :
        Called("save_numpy_array_data",
               [file_path |-> file_path, array |-> array, create_dir |-> create_dir],
               r, NpTarget(file_path), array)

load_numpy_array_data(file_path) ==
    \E r \in {Finish("load_numpy_array_data", LoadNumpyBody(fs, file_path))} :
        Called("load_numpy_array_data", [file_path |-> file_path], r, <<>>, PyNone)

create_directories(paths, exist_ok) ==
    \E r \in {Finish("create_directories", CreateDirectoriesBody(fs, paths, exist_ok))} :
        Called("create_directories", [paths |-> paths, exist_ok |-> exist_ok], r, <<>>, PyNone)

(***************************************************************************)
(* The specification of the file helpers, on a small directory tree.       *)
(***************************************************************************)
FilePaths == {<<"d", "f">>, <<"d", "f", "g">>, <<"d", "f.npy">>}
DirPaths == {<<"d">>, <<"d", "f">>}
PathArgs ==
    {[t |-> "str", v |-> p] : p \in DirPaths}
    \cup {PyList(ps) : ps \in SeqsUpTo(DirPaths, MaxPaths)}
SmallData == {PyDict(<<<<PyStr("a"), PyInt(1)>>>>), PyDict(<<<<PyStr("a"), PyObject>>>>)}
Arrays == {Ndarray("A"), PyList(<<PyInt(1)>>)}

NextFiles ==
    \/ \E p \in FilePaths : read_yaml(p)
    \/ \E p \in FilePaths, data \in SmallData, create_dir \in BOOLEAN :
          write_yaml(p, data, create_dir)
    \/ \E p \in FilePaths : load_object(p)
    \/ \E p \in FilePaths, obj \in Objects, create_dir \in BOOLEAN :
          save_object(p, obj, create_dir)
    \/ \E p \in FilePaths, array \in Arrays, create_dir \in BOOLEAN :
          save_numpy_array_data(p, array, create_dir)
    \/ \E p \in FilePaths : load_numpy_array_data(p)
    \/ \E paths \in PathArgs, exist_ok \in BOOLEAN : create_directories(paths, exist_ok)

SpecFiles == InitIdle /\ [][NextFiles]_vars

(***************************************************************************)
(* The specification of the YAML round trip: the caller holds one mapping, *)
(* writes it, reads it back, and may overwrite the file in between.        *)
(***************************************************************************)
Keys == {PyStr("a"), PyStr("1"), PyInt(1)}
Leaves == {PyNone, PyInt(1), PyBool(TRUE), PyStr("a"), PyStr("1")}
Values ==
    Leaves
    \cup {PyList(items) : items \in SeqsUpTo(Leaves, MaxItems)}
    \cup {PyTuple(items) : items \in SeqsUpTo(Leaves, MaxItems)}
    \cup {PyDict(<<>>), PyDict(<<<<PyStr("a"), PyInt(1)>>>>), PyDict(<<<<PyInt(1), PyStr("1")>>>>)}
Pairs == {<<k, v>> : k \in Keys, v \in Values}

\* The mappings of no, one or two keys, in either insertion order, and one
\* that holds a value safe_dump cannot represent.
Mappings ==
    {PyDict(<<>>)}
    \cup {PyDict(<<kv>>) : kv \in Pairs}
    \cup {PyDict(<<kl[1], kl[2]>>) : kl \in {q \in Pairs \X Pairs : q[1][1] # q[2][1]}}
    \cup {PyDict(<<<<PyStr("a"), PyObject>>>>)}

YamlPaths == {<<"d", "f">>}

InitYaml ==
    /\ fs = EmptyFs
    /\ loggers = NoLoggers
    /\ configured = <<>>
    /\ environ = PyNone
    /\ ret = NoRet
    /\ events = <<>>
    /\ pre = EmptyFs
    /\ first = <<>>
    /\ lastWrite = <<>>
    /\ arg \in Mappings

NextYaml ==
    \/ \E p \in YamlPaths, create_dir \in BOOLEAN : write_yaml(p, arg, create_dir)
    \/ \E p \in YamlPaths : read_yaml(p)
    \/ \E p \in YamlPaths : save_object(p, Obj("plain"), TRUE)
    \/ \E p \in YamlPaths : create_directories([t |-> "str", v |-> Parent(p)], TRUE)

SpecYaml == InitYaml /\ [][NextYaml]_vars

(***************************************************************************)
(* The logger factory (src/logging_core/logger.py).                        *)
(***************************************************************************)
DefaultMaxBytes == 5 * 1024 * 1024
DefaultBackupCount == 5

\* logging.BASIC_FORMAT, an upper-case attribute of the logging module that
\* is a string and no level, and its upper-case form.
BasicFormat == "%(levelname)s:%(name)s:%(message)s"
BasicFormatUpper == "%(LEVELNAME)S:%(NAME)S:%(MESSAGE)S"

\* str.upper() on the names the model draws.
Upper(s) ==
    CASE s = "debug" -> "DEBUG"
      [] s = "info" -> "INFO"
      [] s = "warning" -> "WARNING"
      [] s = "error" -> "ERROR"
      [] s = "bogus" -> "BOGUS"
      [] s = "basic_format" -> "BASIC_FORMAT"
      [] s = BasicFormat -> BasicFormatUpper
      [] OTHER -> s

\* logging._nameToLevel: the names logging recognises as levels.
NameToLevel ==
    [n \in {"CRITICAL", "FATAL", "ERROR", "WARN", "WARNING", "INFO", "DEBUG", "NOTSET"} |->
        CASE n \in {"CRITICAL", "FATAL"} -> 50
          [] n = "ERROR" -> 40
          [] n \in {"WARN", "WARNING"} -> 30
          [] n = "INFO" -> 20
          [] n = "DEBUG" -> 10
          [] OTHER -> 0]

\* logging.INFO, logging.DEBUG, logging.NOTSET
INFO == NameToLevel["INFO"]
DEBUG == NameToLevel["DEBUG"]
NOTSET == NameToLevel["NOTSET"]

\* getattr(logging, name, default): the module's attribute of that name.  The
\* upper-case attributes of logging are the level names and BASIC_FORMAT.
GetAttrLogging(name, default) ==
    IF name \in DOMAIN NameToLevel THEN PyInt(NameToLevel[name])
    ELSE IF name = "BASIC_FORMAT" THEN PyStr(BasicFormat)
    ELSE default

\* lines 52-58: the level get_logger hands to setLevel.
ResolveLevel(level, env) ==
    LET given == IF level = PyNone
                 THEN GetAttrLogging(Upper(IF env = PyNone THEN "INFO" ELSE env.v),
                                     PyInt(INFO))
                 ELSE level
    IN  IF given.t = "str" THEN GetAttrLogging(Upper(given.v), PyInt(INFO)) ELSE given

\* logging.Logger.setLevel, by logging._checkLevel: an integer is taken as it
\* is, a string must be a level name.
CheckLevel(level) ==
    IF level.t = "int" THEN [err |-> "none", level |-> level.v]
    ELSE IF level.t = "str"
    THEN IF level.v \in DOMAIN NameToLevel
         THEN [err |-> "none", level |-> NameToLevel[level.v]]
         ELSE [err |-> "ValueError"]
    ELSE [err |-> "TypeError"]

\* logging.getLogger(name): the manager's one logger of that name, made on
\* first use with level NOTSET, no handlers, propagating.
GetLoggerId(name) == name

NewLogger == [level |-> NOTSET, handlers |-> <<>>, propagate |-> TRUE]

EnsureLogger(lg, id) ==
    IF id \in DOMAIN lg THEN lg
    ELSE [k \in DOMAIN lg \cup {id} |-> IF k = id THEN NewLogger ELSE lg[k]]

\* line 76: f"{name}.log"
DefaultLogFile(name) ==
    CASE name = "x" -> "x.log"
      [] name = "y" -> "y.log"
      [] OTHER -> "other.log"

\* lines 81-86
Formatter(json_format) == IF json_format THEN "JsonFormatter" ELSE "Formatter"

FileHandler(path, max_bytes, backup_count, json_format) ==
    [kind |-> "file", path |-> path, maxBytes |-> max_bytes,
     backupCount |-> backup_count, formatter |-> Formatter(json_format)]

ConsoleHandler(json_format) == [kind |-> "console", formatter |-> Formatter(json_format)]

\* lines 88-102: the handlers a creating call attaches, the file sink first.
NewHandlers(path, max_bytes, backup_count, console, json_format) ==
    <<FileHandler(path, max_bytes, backup_count, json_format)>>
    \o (IF console THEN <<ConsoleHandler(json_format)>> ELSE <<>>)

\* A mutant of the cached lookup: the sinks the call's options ask for are
\* attached again.
CachedLookupReattach(lg, id, lvl, path, max_bytes, backup_count, console, json_format) ==
    [lg EXCEPT ![id].level = lvl,
               ![id].handlers = @ \o NewHandlers(path, max_bytes, backup_count,
                                                 console, json_format)]

\* lines 61-64: the cached logger gets the level, and nothing else.
CachedLookup(lg, id, lvl, path, max_bytes, backup_count, console, json_format) ==
    [lg EXCEPT ![id].level = lvl]

\* LoggerFactory.get_logger (lines 41-105) on the state st = [fs, loggers,
\* configured], with the environment's LOG_LEVEL env.  The result is the new
\* state and the outcome: the logger returned, or the error raised.
GetLogger(st, env, name, log_dir, log_file, level, max_bytes, backup_count, console, json_format) ==
    LET lvl == ResolveLevel(level, env)
        set == CheckLevel(lvl)
        file_name == IF log_file = PyNone THEN DefaultLogFile(name) ELSE log_file.v
        file_path == Append(log_dir, file_name)
        done(f, lg, cf, id, cached) ==
            [fs |-> f, loggers |-> lg, configured |-> cf, outcome |-> "return",
             logger |-> id, cached |-> cached, type |-> "none"]
        raise(f, lg, type, cached) ==
            [fs |-> f, loggers |-> lg, configured |-> st.configured, outcome |-> "raise",
             logger |-> "", cached |-> cached, type |-> type]
    IN  IF name \in DOMAIN st.configured
        THEN LET id == st.configured[name]
             IN  IF set.err # "none"
                 THEN raise(st.fs, st.loggers, set.err, TRUE)
                 ELSE done(st.fs,
                           CachedLookup(st.loggers, id, set.level, file_path, max_bytes,
                                        backup_count, console, json_format),
                           st.configured, id, TRUE)
        ELSE LET mk == Mkdir(st.fs, log_dir, TRUE, TRUE)
                 id == GetLoggerId(name)
                 lg1 == EnsureLogger(st.loggers, id)
             IN  IF mk.err # "none" THEN raise(mk.fs, st.loggers, mk.err, FALSE)
                 ELSE IF set.err # "none" THEN raise(mk.fs, lg1, set.err, FALSE)
                 ELSE LET lg2 == [lg1 EXCEPT ![id].level = set.level,
                                             ![id].propagate = FALSE]
                          cf == [k \in DOMAIN st.configured \cup {name} |->
                                    IF k = name THEN id ELSE st.configured[k]]
                      IN  IF lg2[id].handlers # <<>>
                          THEN done(mk.fs, lg2, cf, id, FALSE)
                          ELSE LET op == OpenAppend(mk.fs, file_path)
                               IN  IF op.err # "none"
                                   THEN raise(op.fs, lg2, op.err, FALSE)
                                   ELSE done(op.fs,
                                             [lg2 EXCEPT ![id].handlers =
                                                 NewHandlers(file_path, max_bytes,
                                                             backup_count, console,
                                                             json_format)],
                                             cf, id, FALSE)

Names == {"x", "y"}
LogDirs == {<<"d">>, <<"d", "f">>}
LogFiles == {PyNone, PyStr("f")}
LevelArgs == {PyNone, PyInt(DEBUG), PyStr("error"), PyStr("bogus"), PyStr("BASIC_FORMAT")}
EnvValues == {PyNone, PyStr("warning"), PyStr("nonsense"), PyStr("BASIC_FORMAT")}

\* One call of LoggerFactory.get_logger.
get_logger(name, log_dir, log_file, level, max_bytes, backup_count, console, json_format) ==
    \E r \in {GetLogger([fs |-> fs, loggers |-> loggers, configured |-> configured],
                        environ, name, log_dir, log_file, level, max_bytes,
                        backup_count, console, json_format)} :
        /\ fs' = r.fs
        /\ loggers' = r.loggers
        /\ configured' = r.configured
        /\ ret' = [op |-> "get_logger", name |-> name, level |-> level,
                   console |-> console, json_format |-> json_format,
                   outcome |-> r.outcome, logger |-> r.logger,
                   cached |-> r.cached, type |-> r.type]
        /\ first' = IF r.outcome = "return" /\ name \notin DOMAIN first
                    THEN [k \in DOMAIN first \cup {name} |->
                             IF k = name
                             THEN [logger |-> r.logger,
                                   handlers |-> r.loggers[r.logger].handlers]
                             ELSE first[k]]
                    ELSE first
        /\ UNCHANGED <<environ, events, pre, lastWrite, arg>>

\* The process's environment changes LOG_LEVEL.
SetEnv(v) ==
    /\ environ # v
    /\ environ' = v
    /\ ret' = [op |-> "setenv"]
    /\ UNCHANGED <<fs, loggers, configured, events, pre, first, lastWrite, arg>>

\* The factory under every combination of sink options, with a few levels.
NextLogger ==
    \/ \E name \in Names, log_dir \in LogDirs, log_file \in LogFiles,
          level \in {PyNone, PyStr("error")}, console \in BOOLEAN, json_format \in BOOLEAN :
          get_logger(name, log_dir, log_file, level, DefaultMaxBytes, DefaultBackupCount,
                     console, json_format)
    \/ \E v \in {PyNone, PyStr("warning")} : SetEnv(v)

SpecLogger == InitIdle /\ [][NextLogger]_vars

\* The factory under every level argument and environment, with the default
\* sink options.
NextLevel ==
    \/ \E name \in Names, log_dir \in LogDirs, log_file \in LogFiles, level \in LevelArgs :
          get_logger(name, log_dir, log_file, level, DefaultMaxBytes, DefaultBackupCount,
                     TRUE, FALSE)
    \/ \E v \in EnvValues : SetEnv(v)

SpecLevel == InitIdle /\ [][NextLevel]_vars

\* The handlers of a logger of one kind.
HandlersOfKind(id, kind) == {i \in DOMAIN loggers[id].handlers : loggers[id].handlers[i].kind = kind}

\* C1: a get_logger call for a name that is cached returns the logger the
\* first call for that name returned, and every cached name's logger has
\* exactly the handlers its first call attached: none added, removed or
\* reconfigured, so at most one file sink and at most one console sink.
C1_CachedSinksFixed ==
    /\ \A n \in DOMAIN configured :
          /\ n \in DOMAIN first
          /\ configured[n] = first[n].logger
          /\ loggers[configured[n]].handlers = first[n].handlers
          /\ Cardinality(HandlersOfKind(configured[n], "file")) <= 1
          /\ Cardinality(HandlersOfKind(configured[n], "console")) <= 1
    /\ (ret.op = "get_logger" /\ ret.outcome = "return") =>
          ret.logger = first[ret.name].logger

\* C1's case: a cached lookup has returned, and its options asked for a
\* formatter or console sink other than the ones the logger has.
C1_Witness ==
    /\ ret.op = "get_logger"
    /\ ret.outcome = "return"
    /\ ret.cached
    /\ \/ Formatter(ret.json_format) # loggers[ret.logger].handlers[1].formatter
       \/ ret.console # (Len(loggers[ret.logger].handlers) = 2)

\* The level the documentation promises for a call's arguments: the explicit
\* level, else the level LOG_LEVEL names, else INFO; INFO too when the name
\* given is no level logging recognises.
PromisedLevel(level, env) ==
    LET named(s) == IF Upper(s) \in DOMAIN NameToLevel THEN NameToLevel[Upper(s)] ELSE INFO
    IN  IF level.t = "int" THEN level.v
        ELSE IF level.t = "str" THEN named(level.v)
        ELSE IF env = PyNone THEN INFO
        ELSE named(env.v)

\* C2: after every get_logger call that the file system does not fail, the
\* call has returned and the logger's level is the level resolved from the
\* call's arguments (explicit, else LOG_LEVEL, else INFO; INFO for a name
\* that is not a recognised level), on a creating and on a cached call alike.
C2_LevelAsResolved ==
    (ret.op = "get_logger" /\ ret.type \notin FsErrors) =>
        /\ ret.outcome = "return"
        /\ loggers[ret.logger].level = PromisedLevel(ret.level, environ)

(***************************************************************************)
(* Claims about the file helpers.                                          *)
(***************************************************************************)
FileOps == {"read_yaml", "write_yaml", "load_object", "save_object",
            "save_numpy_array_data", "load_numpy_array_data", "create_directories"}

\* The steps of the last call that failed, and the last of them.
FailedSteps == {i \in DOMAIN events : events[i].e = "step" /\ events[i].err # "none"}
LastFailed == CHOOSE i \in FailedSteps : \A j \in FailedSteps : j <= i

\* A failed attempt of the primary scheme that the secondary scheme made good.
Recovered(i) ==
    /\ ret.op \in {"load_object", "save_object"}
    /\ events[i].what \in {"pickle.load", "pickle.dump"}
    /\ \E j \in DOMAIN events :
          /\ j > i
          /\ events[j].e = "step"
          /\ events[j].what \in {"dill.load", "dill.dump"}
          /\ events[j].err = "none"

\* The call ended by raising CustomException with the helper's message and
\* the error of its last failed step as original_exception.
RaisedWrapped ==
    /\ ret.outcome = "raise"
    /\ ret.exc.t = "CustomException"
    /\ ret.exc.message = OpMessage(ret.op)
    /\ ret.exc.original_exception.t = "error"
    /\ ret.exc.original_exception.type = events[LastFailed].err

\* C3 as stated: in every helper, after any failure of an underlying step
\* the call ends by raising CustomException with the helper's message and the
\* native error as original_exception; it never returns normally after one.
C3_EveryFailureRaises ==
    (ret.op \in FileOps /\ FailedSteps # {}) => RaisedWrapped

\* C3 as amended: the same for every failure of an underlying step other than
\* a failure of the pickle attempt of load_object or save_object that the
\* dill attempt made good; only CustomException reaches the caller, and a
\* call returns normally only when no step failed or every failure was made
\* good.
C3_UnrecoveredFailureRaises ==
    ret.op \in FileOps =>
        /\ (\E i \in FailedSteps : ~Recovered(i)) => RaisedWrapped
        /\ ret.outcome = "raise" => RaisedWrapped
        /\ ret.outcome = "return" => \A i \in FailedSteps : Recovered(i)

\* C3's case: both schemes of save_object have failed and the call raised.
C3_Witness ==
    /\ ret.op = "save_object"
    /\ Cardinality(FailedSteps) = 2
    /\ ret.outcome = "raise"
    /\ ret.exc.original_exception.type = "PicklingError"

StepsOf(what) == {i \in DOMAIN events : events[i].e = "step" /\ events[i].what = what}

\* C5: load_object on a path that does not exist raises CustomException and
\* attempts neither scheme; on a path that exists it attempts pickle once,
\* attempts dill only after the pickle attempt has failed, returns what
\* pickle loaded when pickle succeeds, what dill loaded when only dill
\* succeeds, and raises CustomException only when both have failed.
C5_PickleThenDill ==
    ret.op = "load_object" =>
        LET p == ret.args.file_path
            pk == StepsOf("pickle.load")
            dl == StepsOf("dill.load")
            pickleOk == IsFile(pre, p) /\ PickleLoad(pre[p].content).err = "none"
            dillOk == IsFile(pre, p) /\ DillLoad(pre[p].content).err = "none"
        IN  IF ~Exists(pre, p)
            THEN /\ ret.outcome = "raise"
                 /\ ret.exc.t = "CustomException"
                 /\ pk = {} /\ dl = {}
            ELSE /\ Cardinality(pk) = 1
                 /\ Cardinality(dl) <= 1
                 /\ \A j \in dl : \E i \in pk : i < j /\ events[i].err # "none"
                 /\ pickleOk => /\ ret.outcome = "return"
                                /\ ret.value = PickleLoad(pre[p].content).value
                                /\ dl = {}
                 /\ (~pickleOk /\ dillOk) => /\ ret.outcome = "return"
                                             /\ ret.value = DillLoad(pre[p].content).value
                 /\ ret.outcome = "raise" <=> (~pickleOk /\ ~dillOk)
                 /\ ret.outcome = "raise" =>
                        /\ ret.exc.t = "CustomException"
                        /\ \A i \in pk \cup dl : events[i].err # "none"
                        /\ dl # {}

\* C5's case: the pickle attempt failed and the dill attempt loaded the object.
C5_Witness ==
    /\ ret.op = "load_object"
    /\ ret.outcome = "return"
    /\ \E i \in StepsOf("pickle.load") : events[i].err # "none"
    /\ \E j \in StepsOf("dill.load") : events[j].err = "none"

\* C6: read_yaml returns only when the path exists and its document is not
\* empty; on a path that does not exist it raises CustomException caused by
\* FileNotFoundError, on an existing empty document CustomException caused
\* by ValueError.
C6_ReadYamlFailures ==
    ret.op = "read_yaml" =>
        LET p == ret.args.file_path
        IN  /\ ret.outcome = "return" =>
                  /\ IsFile(pre, p)
                  /\ pre[p].content # Empty
                  /\ ret.value # PyNone
            /\ ~Exists(pre, p) =>
                  /\ ret.outcome = "raise"
                  /\ ret.exc.t = "CustomException"
                  /\ ret.exc.original_exception.type = "FileNotFoundError"
            /\ (IsFile(pre, p) /\ pre[p].content = Empty) =>
                  /\ ret.outcome = "raise"
                  /\ ret.exc.t = "CustomException"
                  /\ ret.exc.original_exception.type = "ValueError"

\* C6's case: read_yaml was called on an existing, empty file.
C6_Witness ==
    /\ ret.op = "read_yaml"
    /\ IsFile(pre, ret.args.file_path)
    /\ pre[ret.args.file_path].content = Empty
    /\ ret.outcome = "raise"

\* The paths a create_directories call was given, as a set.
GivenPaths ==
    IF ret.args.paths.t = "str" THEN {ret.args.paths.v}
    ELSE {ret.args.paths.v[i] : i \in DOMAIN ret.args.paths.v}

\* C7: create_directories with exist_ok true on paths that all are
\* directories already returns and leaves the file system as it was; with
\* exist_ok false a call naming a directory that exists already raises
\* CustomException.
C7_CreateDirectoriesIdempotent ==
    ret.op = "create_directories" =>
        /\ (ret.args.exist_ok /\ \A p \in GivenPaths : IsDir(pre, p)) =>
              /\ ret.outcome = "return"
              /\ fs = pre
        /\ (~ret.args.exist_ok /\ \E p \in GivenPaths : IsDir(pre, p)) =>
              /\ ret.outcome = "raise"
              /\ ret.exc.t = "CustomException"

\* C7's case: a second call with exist_ok true on a nested directory that
\* exists already has returned.
C7_Witness ==
    /\ ret.op = "create_directories"
    /\ ret.args.exist_ok
    /\ <<"d", "f">> \in GivenPaths
    /\ \A p \in GivenPaths : IsDir(pre, p)
    /\ ret.outcome = "return"

\* C9 as stated: save_numpy_array_data given something that is no numpy
\* array raises CustomException caused by TypeError, with create_dir true or
\* false, and leaves the file at the path (as given, and with the .npy
\* suffix np.save adds) as it was.
C9_NonArrayTypeError ==
    (ret.op = "save_numpy_array_data" /\ ~IsNdarray(ret.args.array)) =>
        /\ ret.outcome = "raise"
        /\ ret.exc.t = "CustomException"
        /\ ret.exc.original_exception.type = "TypeError"
        /\ \A q \in {ret.args.file_path, NpTarget(ret.args.file_path)} :
              /\ Exists(fs, q) <=> Exists(pre, q)
              /\ Exists(fs, q) => fs[q] = pre[q]

LogsBefore(n, level) ==
    \E j \in 1..(n - 1) : events[j].e = "log" /\ events[j].level = level

\* C10 as stated: every helper call that returns has logged an INFO entry
\* before it returns, and every call that raises has logged an ERROR entry
\* before it raises.
C10_LoggedBeforeLeaving ==
    ret.op \in FileOps =>
        LET n == Len(events)
        IN  /\ events[n].e \in {"return", "raise"}
            /\ events[n].e = "return" => LogsBefore(n, "INFO")
            /\ events[n].e = "raise" => LogsBefore(n, "ERROR")

\* C10 as amended: the same, except that create_directories given an empty
\* list makes no directory and returns without any entry.
C10_LoggedUnlessNothingToDo ==
    ret.op \in FileOps =>
        LET n == Len(events)
            nothingToDo == /\ ret.op = "create_directories"
                           /\ ret.args.paths.t = "list"
                           /\ ret.args.paths.v = <<>>
        IN  /\ events[n].e \in {"return", "raise"}
            /\ (events[n].e = "return" /\ ~nothingToDo) => LogsBefore(n, "INFO")
            /\ events[n].e = "raise" => LogsBefore(n, "ERROR")
            /\ nothingToDo => events = <<[e |-> "return"]>>

\* C10's case: a helper failed after an earlier success entry, logged the
\* error and raised.
C10_Witness ==
    /\ ret.op = "create_directories"
    /\ ret.outcome = "raise"
    /\ LogsBefore(Len(events), "INFO")
    /\ events[Len(events) - 1] = Log("ERROR", FailureLog(ret.op))

\* Whether a value holds no tuple at any depth.
RECURSIVE TupleFree(_)
TupleFree(v) ==
    CASE v.t = "tuple" -> FALSE
      [] v.t = "list" -> \A i \in DOMAIN v.v : TupleFree(v.v[i])
      [] v.t = "dict" -> \A i \in DOMAIN v.v : TupleFree(v.v[i][1]) /\ TupleFree(v.v[i][2])
      [] OTHER -> TRUE

\* read_yaml was called on a path whose last write was a write_yaml that
\* returned.
ReadBack ==
    /\ ret.op = "read_yaml"
    /\ ret.args.file_path \in DOMAIN lastWrite
    /\ lastWrite[ret.args.file_path].op = "write_yaml"
    /\ lastWrite[ret.args.file_path].ok

====
